---------------------------- MODULE Spec2Model ----------------------------
(***************************************************************************)
(* A model of horovod/torch/mpi_ops.py: the Python binding that dispatches *)
(* allreduce / allgather / broadcast to the native engine (mpi_lib), keeps *)
(* the in-flight tensors alive in the side table _handle_map, and wires    *)
(* the collectives into autograd.                                          *)
(*                                                                         *)
(* Spec      one Python thread, every public function one atomic action,   *)
(*           on single-host CPU-only deployments.                          *)
(* SpecDispatch  one async dispatch, its arguments and the deployment      *)
(*           drawn from all of them.                                       *)
(* SpecMT    several Python threads; a function is split where the         *)
(*           interpreter can switch threads (around the native calls).     *)
(* SpecGrad  the autograd Functions (forward / backward) on one rank,      *)
(*           the other ranks' tensors being what the engine delivers.      *)
(***************************************************************************)
EXTENDS Integers, Sequences, FiniteSets, TLC

VARIABLES
  env,            \* what _basics / util report: size(), local_size(), nccl_built(), ...
  handle_map,     \* _handle_map: handle -> (input, output)
  next_handle,    \* the native engine's handle allocator
  synchronized,   \* history: issued handles on which a synchronize() has returned
  native_failed,  \* history: some native entry point has raised
  last,           \* the last call of the single thread and how it ended
  args,           \* SpecDispatch: the arguments of the dispatch under study
  pc,             \* SpecMT: where each thread stands
  local,          \* SpecMT: each thread's locals and the end of its last call
  waits,          \* SpecMT, history: per handle, the horovod_torch_wait_and_clear
                  \* invocations and the synchronize calls that returned its output
  world,          \* SpecGrad: this rank and the tensors of all ranks
  ctx,            \* SpecGrad: what forward saved on ctx
  grad            \* SpecGrad: what forward / backward returned

vars == <<env, handle_map, next_handle, synchronized, native_failed, last, args,
          pc, local, waits, world, ctx, grad>>

-----------------------------------------------------------------------------
(* Bounds *)

MaxSize == 3
MaxHandles == 2
MaxDim == 2
NumThreads == 2
MaxWaits == 3

-----------------------------------------------------------------------------
(* Values *)

None == "None"
NoHandle == -1
NoCall == [called |-> FALSE]
NoTensor == [type |-> None, contiguous |-> TRUE]

Average == "Average"
Sum == "Sum"
Adasum == "Adasum"
ReduceOps == {Average, Sum, Adasum}

\* tensor.type() of the tensors the calls are made with
TensorTypes == {"torch.FloatTensor", "torch.cuda.FloatTensor",
                "torch.HalfTensor", "torch.BoolTensor"}

Tensors == [type : TensorTypes, contiguous : BOOLEAN]

\* the tensors of Spec: one accepted everywhere, one accepted by the v2 API only,
\* one not contiguous
LifecycleTensors ==
  { t \in Tensors : \/ t.type = "torch.FloatTensor"
                    \/ t.type = "torch.HalfTensor" /\ t.contiguous }

dtype(tensor) == IF tensor.type = "torch.HalfTensor" THEN "float16"
                 ELSE IF tensor.type = "torch.BoolTensor" THEN "bool"
                 ELSE "float32"

device_type(tensor) == IF tensor.type = "torch.cuda.FloatTensor" THEN "cuda" ELSE "cpu"

\* tensor.new(...): a fresh tensor of the same type, always contiguous
new(tensor) == [type |-> tensor.type, contiguous |-> TRUE, new |-> TRUE]

Handles == 0 .. (MaxHandles - 1)
issued == 0 .. (next_handle - 1)

-----------------------------------------------------------------------------
(* The environment: horovod.common.basics / horovod.common.util *)

size == env.size
local_size == env.local_size
nccl_built == env.nccl_built
is_homogeneous == env.is_homogeneous
gpu_available == env.gpu_available
_v2_api == env.v2_api
_fp16_supported == _v2_api

\* a homogeneous cluster has the same number of ranks on every host, and a cluster
\* of one host is homogeneous
Envs == { e \in [size : 1 .. MaxSize, local_size : 1 .. MaxSize,
                 nccl_built : BOOLEAN, is_homogeneous : BOOLEAN,
                 gpu_available : BOOLEAN, v2_api : BOOLEAN] :
            /\ e.local_size <= e.size
            /\ e.is_homogeneous => e.size % e.local_size = 0
            /\ e.local_size = e.size => e.is_homogeneous
            /\ (e.size = 2 /\ e.local_size = 1) => e.is_homogeneous }

\* one host, no GPU, Horovod built without NCCL
LifecycleEnvs == { e \in Envs : /\ e.local_size = e.size /\ e.is_homogeneous
                                /\ ~e.gpu_available /\ ~e.nccl_built }

RECURSIVE num_rank_is_power_2(_)
num_rank_is_power_2(num_rank) ==
  IF num_rank <= 0 THEN FALSE
  ELSE IF num_rank = 1 THEN TRUE
  ELSE num_rank % 2 = 0 /\ num_rank_is_power_2(num_rank \div 2)

\* handle_average_backwards_compatibility(op, average): the op to use, or the error
\* (average is None, "True" or "False"; op is None or a reduction op)
handle_average_backwards_compatibility(op, average) ==
  IF op # None
  THEN IF average # None THEN [raised |-> "ValueError", op |-> None]
       ELSE [raised |-> None, op |-> op]
  ELSE IF average # None
       THEN [raised |-> None, op |-> IF average = "True" THEN Average ELSE Sum]
       ELSE [raised |-> None, op |-> Average]

\* the entry points mpi_lib exports: one per operation prefix and tensor type
mpi_lib_exports ==
  { <<prefix, type>> :
      prefix \in {"horovod_torch_allreduce_async_", "horovod_torch_allgather_async_",
                  "horovod_torch_broadcast_async_"},
      type \in IF _v2_api
               THEN {"torch.FloatTensor", "torch.cuda.FloatTensor", "torch.HalfTensor"}
               ELSE {"torch.FloatTensor", "torch.cuda.FloatTensor"} }

-----------------------------------------------------------------------------
(* Dispatch *)

_allreduce_function_factory(tensor) == <<"horovod_torch_allreduce_async_", tensor.type>>
_allgather_function_factory(tensor) == <<"horovod_torch_allgather_async_", tensor.type>>
_broadcast_function_factory(tensor) == <<"horovod_torch_broadcast_async_", tensor.type>>

\* _check_function: the entry point's name, or the ValueError
_check_function(function, tensor) ==
  IF function \notin mpi_lib_exports
  THEN [raised |-> "ValueError", function |-> None]
  ELSE IF ~tensor.contiguous
  THEN [raised |-> "ValueError", function |-> None]
  ELSE [raised |-> None, function |-> function]

\* the divisor branch with the size() test of the CPU path left out
allreduce_divisor_cpu_unchecked(tensor, op) ==
  IF op = Average
  THEN [raised |-> None, warned |-> FALSE, divisor |-> size]
  ELSE IF op = Adasum
  THEN IF device_type(tensor) # "cpu" /\ gpu_available
       THEN IF nccl_built
            THEN IF ~is_homogeneous
                 THEN [raised |-> "NotImplementedError", warned |-> FALSE, divisor |-> 0]
                 ELSE IF ~num_rank_is_power_2(size \div local_size)
                 THEN [raised |-> "NotImplementedError", warned |-> FALSE, divisor |-> 0]
                 ELSE [raised |-> None, warned |-> FALSE, divisor |-> local_size]
            ELSE [raised |-> None, warned |-> TRUE, divisor |-> 1]
       ELSE [raised |-> None, warned |-> FALSE, divisor |-> 1]
  ELSE [raised |-> None, warned |-> FALSE, divisor |-> 1]

\* the divisor branch with the MPI fallback raising like the NCCL branch does
allreduce_divisor_no_fallback(tensor, op) ==
  IF op = Average
  THEN [raised |-> None, warned |-> FALSE, divisor |-> size]
  ELSE IF op = Adasum
  THEN IF device_type(tensor) # "cpu" /\ gpu_available
       THEN IF ~is_homogeneous
            THEN [raised |-> "NotImplementedError", warned |-> FALSE, divisor |-> 0]
            ELSE IF ~num_rank_is_power_2(size \div local_size)
            THEN [raised |-> "NotImplementedError", warned |-> FALSE, divisor |-> 0]
            ELSE [raised |-> None, warned |-> ~nccl_built,
                  divisor |-> IF nccl_built THEN local_size ELSE 1]
       ELSE IF ~num_rank_is_power_2(size)
            THEN [raised |-> "NotImplementedError", warned |-> FALSE, divisor |-> 0]
            ELSE [raised |-> None, warned |-> FALSE, divisor |-> 1]
  ELSE [raised |-> None, warned |-> FALSE, divisor |-> 1]

\* the divisor branch of _allreduce_async: the error raised, the warning, the divisor
allreduce_divisor(tensor, op) ==
  IF op = Average
  THEN [raised |-> None, warned |-> FALSE, divisor |-> size]
  ELSE IF op = Adasum
  THEN IF device_type(tensor) # "cpu" /\ gpu_available
       THEN IF nccl_built
            THEN IF ~is_homogeneous
                 THEN [raised |-> "NotImplementedError", warned |-> FALSE, divisor |-> 0]
                 ELSE IF ~num_rank_is_power_2(size \div local_size)
                 THEN [raised |-> "NotImplementedError", warned |-> FALSE, divisor |-> 0]
                 ELSE [raised |-> None, warned |-> FALSE, divisor |-> local_size]
            ELSE [raised |-> None, warned |-> TRUE, divisor |-> 1]
       ELSE IF ~num_rank_is_power_2(size)
            THEN [raised |-> "NotImplementedError", warned |-> FALSE, divisor |-> 0]
            ELSE [raised |-> None, warned |-> FALSE, divisor |-> 1]
  ELSE [raised |-> None, warned |-> FALSE, divisor |-> 1]

\* _allreduce_async handing the requested op to the engine untranslated
_allreduce_async_untranslated(tensor, output, op) ==
  IF dtype(tensor) = "float16" /\ ~_fp16_supported
  THEN [raised |-> "NotImplementedError", warned |-> FALSE, native |-> NoCall]
  ELSE LET d == allreduce_divisor(tensor, op)
           f == _check_function(_allreduce_function_factory(tensor), tensor)
       IN IF d.raised # None
          THEN [raised |-> d.raised, warned |-> d.warned, native |-> NoCall]
          ELSE IF f.raised # None
          THEN [raised |-> f.raised, warned |-> d.warned, native |-> NoCall]
          ELSE [raised |-> None, warned |-> d.warned,
                native |-> [called |-> TRUE, fn |-> f.function, tensor |-> tensor,
                            output |-> output, divisor |-> d.divisor, op |-> op]]

\* _allreduce_async up to the native call: the error raised before it, or the call made
_allreduce_async(tensor, output, op) ==
  IF dtype(tensor) = "float16" /\ ~_fp16_supported
  THEN [raised |-> "NotImplementedError", warned |-> FALSE, native |-> NoCall]
  ELSE LET d == allreduce_divisor(tensor, op)
           true_op == IF op = Average THEN Sum ELSE op
           f == _check_function(_allreduce_function_factory(tensor), tensor)
       IN IF d.raised # None
          THEN [raised |-> d.raised, warned |-> d.warned, native |-> NoCall]
          ELSE IF f.raised # None
          THEN [raised |-> f.raised, warned |-> d.warned, native |-> NoCall]
          ELSE [raised |-> None, warned |-> d.warned,
                native |-> [called |-> TRUE, fn |-> f.function, tensor |-> tensor,
                            output |-> output, divisor |-> d.divisor,
                            op |-> true_op]]

\* _allgather_async testing contiguity only after the engine has the tensor
_allgather_async_late_check(tensor, output) ==
  LET fn == _allgather_function_factory(tensor)
  IN IF fn \notin mpi_lib_exports
     THEN [raised |-> "ValueError", warned |-> FALSE, native |-> NoCall]
     ELSE [raised |-> IF tensor.contiguous THEN None ELSE "ValueError",
           warned |-> FALSE,
           native |-> [called |-> TRUE, fn |-> fn, tensor |-> tensor,
                       output |-> output]]

_allgather_async(tensor, output) ==
  LET f == _check_function(_allgather_function_factory(tensor), tensor)
  IN IF f.raised # None
     THEN [raised |-> f.raised, warned |-> FALSE, native |-> NoCall]
     ELSE [raised |-> None, warned |-> FALSE,
           native |-> [called |-> TRUE, fn |-> f.function, tensor |-> tensor,
                       output |-> output]]

_broadcast_async(tensor, output, root_rank) ==
  LET f == _check_function(_broadcast_function_factory(tensor), tensor)
  IN IF f.raised # None
     THEN [raised |-> f.raised, warned |-> FALSE, native |-> NoCall]
     ELSE [raised |-> None, warned |-> FALSE,
           native |-> [called |-> TRUE, fn |-> f.function, tensor |-> tensor,
                       output |-> output,
                       root_rank |-> root_rank]]

-----------------------------------------------------------------------------
(* The native engine *)

\* the handle the engine returns for a newly enqueued operation
native_new_handle == next_handle

\* a store that rebinds the whole table instead of one key
map_set_rebind(map, handle, tensor, output) ==
  [h \in {handle} |-> <<tensor, output>>]

\* _handle_map[handle] = (tensor, output)
map_set(map, handle, tensor, output) ==
  [h \in (DOMAIN map) \cup {handle} |->
     IF h = handle THEN <<tensor, output>> ELSE map[h]]

\* _handle_map.pop(handle), the key being present
map_pop(map, handle) == [h \in (DOMAIN map) \ {handle} |-> map[h]]

-----------------------------------------------------------------------------
(* Spec: one thread *)

Averages == {None, "True", "False"}

Call(call, tensor, out, op, handle) ==
  [call |-> call, tensor |-> tensor, out |-> out, op |-> op, handle |-> handle,
   raised |-> None, warned |-> FALSE, native |-> NoCall,
   ret |-> None, output |-> NoTensor, flag |-> FALSE]

\* the tail shared by the async functions: d is what the function decided before
\* the native call, native_ok whether the engine accepts the operation
dispatch(call, tensor, output, op, d, native_ok) ==
  /\ (d.raised = None /\ native_ok) => next_handle < MaxHandles
  /\ IF d.raised # None
     THEN /\ last' = [Call(call, tensor, output, op, NoHandle) EXCEPT
                        !.raised = d.raised, !.warned = d.warned,
                        !.native = d.native, !.ret = "raise"]
          /\ UNCHANGED <<handle_map, next_handle, native_failed>>
     ELSE IF ~native_ok
     THEN /\ last' = [Call(call, tensor, output, op, NoHandle) EXCEPT
                        !.raised = "RuntimeError", !.warned = d.warned,
                        !.native = d.native, !.ret = "raise"]
          /\ native_failed' = TRUE
          /\ UNCHANGED <<handle_map, next_handle>>
     ELSE /\ handle_map' = map_set(handle_map, native_new_handle, tensor, output)
          /\ next_handle' = next_handle + 1
          /\ last' = [Call(call, tensor, output, op, native_new_handle) EXCEPT
                        !.warned = d.warned, !.native = d.native, !.ret = "handle"]
          /\ UNCHANGED native_failed
  /\ UNCHANGED <<env, synchronized, args, pc, local, waits, world, ctx, grad>>

allreduce_dispatch(call, tensor, output, average, op, native_ok) ==
  LET c == handle_average_backwards_compatibility(op, average)
      d == IF c.raised # None
           THEN [raised |-> c.raised, warned |-> FALSE, native |-> NoCall]
           ELSE _allreduce_async(tensor, output, c.op)
  IN dispatch(call, tensor, output, c.op, d, native_ok)

allreduce_async(tensor, average, op, native_ok) ==
  allreduce_dispatch("allreduce_async", tensor, new(tensor), average, op, native_ok)

allreduce_async_(tensor, average, op, native_ok) ==
  allreduce_dispatch("allreduce_async_", tensor, tensor, average, op, native_ok)

allgather_async(tensor, native_ok) ==
  dispatch("allgather_async", tensor, new(tensor), None,
           _allgather_async(tensor, new(tensor)), native_ok)

broadcast_async(tensor, root_rank, native_ok) ==
  dispatch("broadcast_async", tensor, new(tensor), None,
           _broadcast_async(tensor, new(tensor), root_rank), native_ok)

broadcast_async_(tensor, root_rank, native_ok) ==
  dispatch("broadcast_async_", tensor, tensor, None,
           _broadcast_async(tensor, tensor, root_rank), native_ok)

\* poll: the engine's answer ("True", "False"), or its failure ("raise")
poll(handle, answer) ==
  /\ last' = [Call("poll", NoTensor, NoTensor, None, handle) EXCEPT
                !.native = [called |-> TRUE, fn |-> <<"horovod_torch_poll", None>>],
                !.raised = IF answer = "raise" THEN "RuntimeError" ELSE None,
                !.ret = IF answer = "raise" THEN "raise" ELSE "bool",
                !.flag = (answer = "True")]
  /\ native_failed' = (native_failed \/ answer = "raise")
  /\ UNCHANGED <<env, handle_map, next_handle, synchronized, args, pc, local, waits,
                 world, ctx, grad>>

\* synchronize without the membership test: the pop raises KeyError
synchronize_on_unchecked(map, handle, native_ok) ==
  IF ~native_ok
  THEN [ret |-> "raise", raised |-> "RuntimeError", waited |-> TRUE,
        output |-> NoTensor, map |-> map]
  ELSE IF handle \notin DOMAIN map
  THEN [ret |-> "raise", raised |-> "KeyError", waited |-> TRUE,
        output |-> NoTensor, map |-> map]
  ELSE [ret |-> "output", raised |-> None, waited |-> TRUE,
        output |-> map[handle][2], map |-> map_pop(map, handle)]

\* synchronize on a map: what it returns or raises, the native call, the map after
synchronize_on(map, handle, native_ok) ==
  IF handle \notin DOMAIN map
  THEN [ret |-> None, raised |-> None, waited |-> FALSE, output |-> NoTensor,
        map |-> map]
  ELSE IF ~native_ok
  THEN [ret |-> "raise", raised |-> "RuntimeError", waited |-> TRUE,
        output |-> NoTensor, map |-> map]
  ELSE [ret |-> "output", raised |-> None, waited |-> TRUE,
        output |-> map[handle][2], map |-> map_pop(map, handle)]

synchronize(handle, native_ok) ==
  LET s == synchronize_on(handle_map, handle, native_ok)
  IN /\ handle_map' = s.map
     /\ last' = [Call("synchronize", NoTensor, NoTensor, None, handle) EXCEPT
                   !.ret = s.ret, !.raised = s.raised, !.output = s.output,
                   !.native = IF s.waited
                              THEN [called |-> TRUE,
                                    fn |-> <<"horovod_torch_wait_and_clear", None>>]
                              ELSE NoCall]
     /\ synchronized' = IF s.raised = None /\ handle \in issued
                        THEN synchronized \cup {handle} ELSE synchronized
     /\ native_failed' = (native_failed \/ s.raised # None)
     /\ UNCHANGED <<env, next_handle, args, pc, local, waits, world, ctx, grad>>

NoArgs == [call |-> None]
NoWorld == [fn |-> None, rank |-> 0]
NoCtx == [fn |-> None]
NoGrad == [stage |-> None, raised |-> None, value |-> << >>, native |-> NoCall,
           offset |-> 0, length |-> 0]

\* the module as imported: nothing dispatched yet
Start ==
  /\ handle_map = << >>
  /\ next_handle = 0
  /\ synchronized = {}
  /\ native_failed = FALSE
  /\ last = Call(None, NoTensor, NoTensor, None, NoHandle)

Init ==
  /\ Start
  /\ env \in LifecycleEnvs
  /\ args = NoArgs
  /\ pc = << >>
  /\ local = << >>
  /\ waits = << >>
  /\ world = NoWorld
  /\ ctx = NoCtx
  /\ grad = NoGrad

Next ==
  \/ \E tensor \in LifecycleTensors, average \in Averages, op \in ReduceOps \cup {None},
        native_ok \in BOOLEAN : allreduce_async(tensor, average, op, native_ok)
  \/ \E tensor \in LifecycleTensors, average \in Averages, op \in ReduceOps \cup {None},
        native_ok \in BOOLEAN : allreduce_async_(tensor, average, op, native_ok)
  \/ \E tensor \in LifecycleTensors, native_ok \in BOOLEAN :
        allgather_async(tensor, native_ok)
  \/ \E tensor \in LifecycleTensors, native_ok \in BOOLEAN :
        broadcast_async(tensor, 0, native_ok)
  \/ \E tensor \in LifecycleTensors, native_ok \in BOOLEAN :
        broadcast_async_(tensor, 0, native_ok)
  \/ \E handle \in Handles \cup {MaxHandles}, answer \in {"True", "False", "raise"} :
        poll(handle, answer)
  \/ \E handle \in Handles \cup {MaxHandles}, native_ok \in BOOLEAN :
        synchronize(handle, native_ok)

Spec == Init /\ [][Next]_vars

-----------------------------------------------------------------------------
(* SpecDispatch: one async dispatch on every deployment *)

DispatchArgs ==
  [call : {"allreduce_async", "allreduce_async_"}, tensor : Tensors,
   average : Averages, op : ReduceOps \cup {None}]
  \cup [call : {"allgather_async", "broadcast_async", "broadcast_async_"},
        tensor : Tensors, average : {None}, op : {None}]

InitDispatch ==
  /\ Start
  /\ env \in Envs
  /\ args \in DispatchArgs
  /\ pc = << >>
  /\ local = << >>
  /\ waits = << >>
  /\ world = NoWorld
  /\ ctx = NoCtx
  /\ grad = NoGrad

NextDispatch ==
  \/ \E native_ok \in BOOLEAN :
        /\ args.call = "allreduce_async"
        /\ allreduce_async(args.tensor, args.average, args.op, native_ok)
  \/ \E native_ok \in BOOLEAN :
        /\ args.call = "allreduce_async_"
        /\ allreduce_async_(args.tensor, args.average, args.op, native_ok)
  \/ \E native_ok \in BOOLEAN :
        /\ args.call = "allgather_async"
        /\ allgather_async(args.tensor, native_ok)
  \/ \E native_ok \in BOOLEAN :
        /\ args.call = "broadcast_async"
        /\ broadcast_async(args.tensor, 0, native_ok)
  \/ \E native_ok \in BOOLEAN :
        /\ args.call = "broadcast_async_"
        /\ broadcast_async_(args.tensor, 0, native_ok)

SpecDispatch == InitDispatch /\ [][NextDispatch]_vars

-----------------------------------------------------------------------------
(* Tensor values: float elements, as far as the gradients need them *)

Fin(n) == [k |-> "fin", v |-> n, div |-> 1]
Inf == [k |-> "inf", v |-> 0, div |-> 1]
NaN == [k |-> "nan", v |-> 0, div |-> 1]

\* IEEE addition of two undivided elements (of the infinities only +inf occurs)
fadd(a, b) ==
  IF a.k = "nan" \/ b.k = "nan" THEN NaN
  ELSE IF a.k = "inf" \/ b.k = "inf" THEN Inf
  ELSE Fin(a.v + b.v)

\* IEEE multiplication of an element by the integer n >= 0: inf * 0 and nan * 0 are nan
fmul(a, n) ==
  IF a.k = "nan" THEN a
  ELSE IF a.k = "inf" THEN (IF n = 0 THEN [a EXCEPT !.k = "nan"] ELSE a)
  ELSE [a EXCEPT !.v = a.v * n]

\* the element a / divisor, kept as the fraction v / div
fdiv(a, divisor) == [a EXCEPT !.div = a.div * divisor]

\* tensor.narrow(0, start, length) of a one-dimensional tensor
narrow(tensor, start, length) == SubSeq(tensor, start + 1, start + length)

\* torch.sum of a one-dimensional integer tensor
RECURSIVE torch_sum(_)
torch_sum(tensor) ==
  IF tensor = << >> THEN 0 ELSE Head(tensor) + torch_sum(Tail(tensor))

\* tensor *= n
imul(tensor, n) == [p \in DOMAIN tensor |-> fmul(tensor[p], n)]

-----------------------------------------------------------------------------
(* The engine's collectives: what one rank receives *)

Ranks == 0 .. (size - 1)

RECURSIVE rank_sum(_, _, _)
rank_sum(inputs, p, r) ==
  IF r < 0 THEN Fin(0) ELSE fadd(rank_sum(inputs, p, r - 1), inputs[r][p])

\* allreduce of the ranks' tensors: the elementwise sum over the ranks divided by
\* the divisor; an Adasum result is left uninterpreted
native_allreduce(inputs, op, divisor) ==
  [p \in DOMAIN inputs[0] |->
     IF op = Sum THEN fdiv(rank_sum(inputs, p, size - 1), divisor)
     ELSE [k |-> "adasum", v |-> 0, div |-> divisor]]

\* allgather of the ranks' tensors: their concatenation in rank order
RECURSIVE native_allgather(_, _)
native_allgather(inputs, r) ==
  IF r < 0 THEN << >> ELSE native_allgather(inputs, r - 1) \o inputs[r]

-----------------------------------------------------------------------------
(* The blocking wrappers, as the autograd Functions use them *)

GradTensor == [type |-> "torch.FloatTensor", contiguous |-> TRUE]

Failed(raised, map, nh, native) ==
  [raised |-> raised, map |-> map, next_handle |-> nh, native |-> native,
   value |-> << >>]

\* allreduce(tensor, average=average, op=op): Compression.none, then
\* HorovodAllreduce.forward: allreduce_async followed by synchronize. inputs are
\* the tensors of all ranks, ok whether the engine accepts the operation.
allreduce(map, nh, inputs, average, op, ok) ==
  LET c == handle_average_backwards_compatibility(op, average)
      output == new(GradTensor)
      d == IF c.raised # None
           THEN [raised |-> c.raised, warned |-> FALSE, native |-> NoCall]
           ELSE _allreduce_async(GradTensor, output, c.op)
  IN IF d.raised # None THEN Failed(d.raised, map, nh, NoCall)
     ELSE IF ~ok THEN Failed("RuntimeError", map, nh, d.native)
     ELSE LET s == synchronize_on(map_set(map, nh, GradTensor, output), nh, TRUE)
          IN [raised |-> None, map |-> s.map, next_handle |-> nh + 1,
              native |-> d.native,
              value |-> native_allreduce(inputs, d.native.op, d.native.divisor)]

\* allgather(tensor): HorovodAllgather.forward: allgather_async, then synchronize
allgather(map, nh, inputs, ok) ==
  LET output == new(GradTensor)
      d == _allgather_async(GradTensor, output)
  IN IF d.raised # None THEN Failed(d.raised, map, nh, NoCall)
     ELSE IF ~ok THEN Failed("RuntimeError", map, nh, d.native)
     ELSE LET s == synchronize_on(map_set(map, nh, GradTensor, output), nh, TRUE)
          IN [raised |-> None, map |-> s.map, next_handle |-> nh + 1,
              native |-> d.native,
              value |-> native_allgather(inputs, size - 1)]

\* broadcast_async(tensor, root_rank) followed by synchronize
broadcast(map, nh, inputs, root_rank, ok) ==
  LET output == new(GradTensor)
      d == _broadcast_async(GradTensor, output, root_rank)
  IN IF d.raised # None THEN Failed(d.raised, map, nh, NoCall)
     ELSE IF ~ok THEN Failed("RuntimeError", map, nh, d.native)
     ELSE LET s == synchronize_on(map_set(map, nh, GradTensor, output), nh, TRUE)
          IN [raised |-> None, map |-> s.map, next_handle |-> nh + 1,
              native |-> d.native, value |-> inputs[root_rank]]

-----------------------------------------------------------------------------
(* SpecGrad: the autograd Functions on one rank *)

rank == world.rank

\* the arguments backward hands to allreduce, hard-wired to a sum
HorovodAllreduce_backward_args_sum(c) == [average |-> None, op |-> Sum]

\* HorovodAllreduce.backward: allreduce(grad_output, average=ctx.average, op=ctx.op)
HorovodAllreduce_backward_args(c) == [average |-> c.average, op |-> c.op]

\* the offset taken as rank times the own size
allgather_offset_uniform(r, dim, own) == r * own

\* HorovodAllgather.backward: the offset of this rank's slice
allgather_offset(r, dim, own) ==
  IF r # 0 THEN torch_sum(narrow(dim, 0, r)) ELSE 0

Finish(stage, r, value, offset, length) ==
  /\ grad' = [stage |-> IF r.raised # None THEN stage \o "_raised" ELSE stage,
              raised |-> r.raised,
              value |-> IF r.raised # None THEN << >> ELSE value,
              native |-> r.native, offset |-> offset, length |-> length]
  /\ handle_map' = r.map
  /\ next_handle' = r.next_handle
  /\ native_failed' = (native_failed \/ r.raised = "RuntimeError")
  /\ UNCHANGED <<env, synchronized, last, args, pc, local, waits, world>>

HorovodAllreduce_forward(ok) ==
  /\ world.fn = "allreduce" /\ grad.stage = None
  /\ ctx' = [fn |-> "allreduce", average |-> world.average, op |-> world.op]
  /\ LET r == allreduce(handle_map, next_handle, world.inputs,
                        world.average, world.op, ok)
     IN Finish("forward", r, r.value, 0, 0)

HorovodAllreduce_backward(ok) ==
  /\ world.fn = "allreduce" /\ grad.stage = "forward"
  /\ LET a == HorovodAllreduce_backward_args(ctx)
         r == allreduce(handle_map, next_handle, world.grads, a.average, a.op, ok)
     IN Finish("backward", r, r.value, 0, 0)
  /\ UNCHANGED ctx

HorovodAllgather_forward(ok) ==
  /\ world.fn = "allgather" /\ grad.stage = None
  /\ ctx' = [fn |-> "allgather", dim |-> Len(world.inputs[rank])]
  /\ LET r == allgather(handle_map, next_handle, world.inputs, ok)
     IN Finish("forward", r, r.value, 0, 0)

HorovodAllgather_backward(ok1, ok2) ==
  /\ world.fn = "allgather" /\ grad.stage = "forward"
  /\ LET reduced == allreduce(handle_map, next_handle, world.grads, "False", None, ok1)
         dim_t == [q \in Ranks |-> << Len(world.inputs[q]) >>]
         dim == allgather(reduced.map, reduced.next_handle, dim_t, ok2)
     IN IF reduced.raised # None THEN Finish("backward", reduced, << >>, 0, 0)
        ELSE IF dim.raised # None THEN Finish("backward", dim, << >>, 0, 0)
        ELSE LET offset == allgather_offset(rank, dim.value, ctx.dim)
             IN Finish("backward", [dim EXCEPT !.native = reduced.native],
                       narrow(reduced.value, offset, ctx.dim), offset, ctx.dim)
  /\ UNCHANGED ctx

HorovodBroadcast_forward(ok) ==
  /\ world.fn = "broadcast" /\ grad.stage = None
  /\ ctx' = [fn |-> "broadcast", root_rank |-> world.root_rank]
  /\ LET r == broadcast(handle_map, next_handle, world.inputs, world.root_rank, ok)
     IN Finish("forward", r, r.value, 0, 0)

HorovodBroadcast_backward(ok) ==
  /\ world.fn = "broadcast" /\ grad.stage = "forward"
  /\ LET reduced == allreduce(handle_map, next_handle, world.grads, "False", None, ok)
     IN Finish("backward", reduced,
               IF rank # ctx.root_rank THEN imul(reduced.value, 0) ELSE reduced.value,
               0, 0)
  /\ UNCHANGED ctx

\* the elements an incoming gradient is made of
GradValues == {Fin(0), Fin(1), Inf, NaN}

\* one-element tensors of every rank
Scalars(n, values) == [0 .. (n - 1) -> {<<x>> : x \in values}]

\* a tensor of the given length whose element p is p
Iota(length) == [p \in 1 .. length |-> Fin(p)]

Worlds(n) ==
  [fn : {"allreduce"}, rank : 0 .. (n - 1), average : Averages,
   op : ReduceOps \cup {None}, root_rank : {0},
   inputs : Scalars(n, {Fin(1)}), grads : Scalars(n, GradValues)]
  \cup
  { [fn |-> "allgather", rank |-> r, average |-> None, op |-> None, root_rank |-> 0,
     inputs |-> [q \in 0 .. (n - 1) |-> Iota(dims[q])],
     grads |-> [q \in 0 .. (n - 1) |->
                  Iota(torch_sum([q2 \in 1 .. n |-> dims[q2 - 1]]))]] :
     r \in 0 .. (n - 1), dims \in [0 .. (n - 1) -> 0 .. MaxDim] }
  \cup
  [fn : {"broadcast"}, rank : 0 .. (n - 1), average : {None}, op : {None},
   root_rank : 0 .. (n - 1),
   inputs : Scalars(n, {Fin(1)}), grads : Scalars(n, GradValues)]

InitGrad ==
  /\ Start
  /\ env \in LifecycleEnvs
  /\ world \in Worlds(env.size)
  /\ args = NoArgs
  /\ pc = << >>
  /\ local = << >>
  /\ waits = << >>
  /\ ctx = NoCtx
  /\ grad = NoGrad

NextGrad ==
  \/ \E ok \in BOOLEAN : HorovodAllreduce_forward(ok)
  \/ \E ok \in BOOLEAN : HorovodAllreduce_backward(ok)
  \/ \E ok \in BOOLEAN : HorovodAllgather_forward(ok)
  \/ \E ok1, ok2 \in BOOLEAN : HorovodAllgather_backward(ok1, ok2)
  \/ \E ok \in BOOLEAN : HorovodBroadcast_forward(ok)
  \/ \E ok \in BOOLEAN : HorovodBroadcast_backward(ok)

SpecGrad == InitGrad /\ [][NextGrad]_vars

-----------------------------------------------------------------------------
(* SpecMT: threads sharing _handle_map *)

Threads == 1 .. NumThreads

Idle == [call |-> None, handle |-> NoHandle, tensor |-> NoTensor, out |-> NoTensor,
         raised |-> None, ret |-> None, output |-> NoTensor]

MTUnchanged == UNCHANGED <<env, last, args, world, ctx, grad>>

\* _allgather_async up to and including the native call, which returns the handle
mt_allgather_async(t, tensor, native_ok) ==
  /\ pc[t] = "idle"
  /\ LET output == new(tensor)
         d == _allgather_async(tensor, output)
         call == [Idle EXCEPT !.call = "allgather_async", !.tensor = tensor,
                              !.out = output]
     IN /\ (d.raised = None /\ native_ok) => next_handle < MaxHandles
        /\ IF d.raised # None
           THEN /\ local' = [local EXCEPT ![t] =
                               [call EXCEPT !.raised = d.raised, !.ret = "raise"]]
                /\ UNCHANGED <<pc, next_handle, native_failed>>
           ELSE IF ~native_ok
           THEN /\ local' = [local EXCEPT ![t] =
                               [call EXCEPT !.raised = "RuntimeError", !.ret = "raise"]]
                /\ native_failed' = TRUE
                /\ UNCHANGED <<pc, next_handle>>
           ELSE /\ local' = [local EXCEPT ![t] =
                               [call EXCEPT !.handle = native_new_handle]]
                /\ next_handle' = next_handle + 1
                /\ pc' = [pc EXCEPT ![t] = "dispatched"]
                /\ UNCHANGED native_failed
  /\ UNCHANGED <<handle_map, synchronized, waits>>
  /\ MTUnchanged

\* _handle_map[handle] = (tensor, output); return handle
mt_store(t) ==
  /\ pc[t] = "dispatched"
  /\ handle_map' = map_set(handle_map, local[t].handle, local[t].tensor, local[t].out)
  /\ local' = [local EXCEPT ![t].ret = "handle"]
  /\ pc' = [pc EXCEPT ![t] = "idle"]
  /\ UNCHANGED <<next_handle, synchronized, native_failed, waits>>
  /\ MTUnchanged

\* synchronize: if handle not in _handle_map: return
mt_synchronize(t, handle) ==
  /\ pc[t] = "idle"
  /\ local' = [local EXCEPT ![t] = [Idle EXCEPT !.call = "synchronize",
                                               !.handle = handle]]
  /\ pc' = [pc EXCEPT ![t] = IF handle \notin DOMAIN handle_map THEN "idle"
                             ELSE "waiting"]
  /\ UNCHANGED <<handle_map, next_handle, synchronized, native_failed, waits>>
  /\ MTUnchanged

\* synchronize: mpi_lib.horovod_torch_wait_and_clear(handle)
mt_wait_and_clear(t, native_ok) ==
  /\ pc[t] = "waiting"
  /\ waits[local[t].handle].waited < MaxWaits
  /\ waits' = [waits EXCEPT ![local[t].handle].waited = @ + 1]
  /\ IF native_ok
     THEN /\ pc' = [pc EXCEPT ![t] = "waited"]
          /\ UNCHANGED <<local, native_failed>>
     ELSE /\ pc' = [pc EXCEPT ![t] = "idle"]
          /\ local' = [local EXCEPT ![t].raised = "RuntimeError", ![t].ret = "raise"]
          /\ native_failed' = TRUE
  /\ UNCHANGED <<handle_map, next_handle, synchronized>>
  /\ MTUnchanged

\* synchronize: _, output = _handle_map.pop(handle); return output
mt_pop(t) ==
  /\ pc[t] = "waited"
  /\ pc' = [pc EXCEPT ![t] = "idle"]
  /\ IF local[t].handle \in DOMAIN handle_map
     THEN /\ handle_map' = map_pop(handle_map, local[t].handle)
          /\ local' = [local EXCEPT ![t].ret = "output",
                                    ![t].output = handle_map[local[t].handle][2]]
          /\ synchronized' = synchronized \cup {local[t].handle}
          /\ waits' = [waits EXCEPT ![local[t].handle].returned = @ + 1]
     ELSE /\ local' = [local EXCEPT ![t].raised = "KeyError", ![t].ret = "raise"]
          /\ UNCHANGED <<handle_map, synchronized, waits>>
  /\ UNCHANGED <<next_handle, native_failed>>
  /\ MTUnchanged

InitMT ==
  /\ Start
  /\ env \in LifecycleEnvs
  /\ args = NoArgs
  /\ pc = [t \in Threads |-> "idle"]
  /\ local = [t \in Threads |-> Idle]
  /\ waits = [h \in Handles |-> [waited |-> 0, returned |-> 0]]
  /\ world = NoWorld
  /\ ctx = NoCtx
  /\ grad = NoGrad

NextMT ==
  \/ \E t \in Threads, tensor \in LifecycleTensors, native_ok \in BOOLEAN :
        mt_allgather_async(t, tensor, native_ok)
  \/ \E t \in Threads : mt_store(t)
  \/ \E t \in Threads, handle \in Handles : mt_synchronize(t, handle)
  \/ \E t \in Threads, native_ok \in BOOLEAN : mt_wait_and_clear(t, native_ok)
  \/ \E t \in Threads : mt_pop(t)

SpecMT == InitMT /\ [][NextMT]_vars

-----------------------------------------------------------------------------
(* Claims on the handle lifecycle (Spec) *)

AsyncCalls == {"allreduce_async", "allreduce_async_", "allgather_async",
               "broadcast_async", "broadcast_async_"}
AllreduceCalls == {"allreduce_async", "allreduce_async_"}

\* C1: a synchronize on a handle on which a synchronize has already returned, or
\* on a handle that was never issued, returns None, raises nothing, does not call
\* horovod_torch_wait_and_clear and leaves _handle_map as it was.
C1_RepeatedSynchronizeIsNoOp ==
  [][ (/\ last'.call = "synchronize"
       /\ (last'.handle \in synchronized \/ last'.handle \notin issued))
      => (/\ last'.ret = None
          /\ last'.raised = None
          /\ ~last'.native.called
          /\ handle_map' = handle_map) ]_vars

\* a second synchronize on a synchronized handle has returned None while another
\* handle is still pending
C1_Witness ==
  /\ last.call = "synchronize"
  /\ last.handle \in synchronized
  /\ last.ret = None
  /\ DOMAIN handle_map # {}

\* C2: as long as no native entry point has failed, the keys of _handle_map are the
\* handles issued and not yet synchronized; a dispatch stores exactly its
\* (input, output) under the handle it returns, and an entry never changes while
\* it is in the table.
C2_MapIsPendingHandles ==
  /\ [](~native_failed => DOMAIN handle_map = issued \ synchronized)
  /\ [][ ~native_failed' =>
          /\ (next_handle' # next_handle =>
                 /\ last'.handle = next_handle
                 /\ last'.handle \in DOMAIN handle_map'
                 /\ handle_map'[last'.handle] = <<last'.tensor, last'.out>>)
          /\ \A h \in (DOMAIN handle_map) \cap (DOMAIN handle_map') :
                 handle_map'[h] = handle_map[h] ]_vars

\* two handles pending with different tensors, a third call having been a
\* synchronize of neither
C2_Witness ==
  /\ ~native_failed
  /\ DOMAIN handle_map = {0, 1}
  /\ handle_map[0] # handle_map[1]
  /\ handle_map[1][1] = handle_map[1][2]
  /\ last.call = "poll"

\* C6: an async dispatch that raises a validation, capability or topology error
\* has not called the native entry point, returns no handle and leaves
\* _handle_map as it was.
C6_ErrorsPrecedeNativeDispatch ==
  [][ (/\ last'.call \in AsyncCalls
       /\ last'.raised \in {"ValueError", "NotImplementedError"})
      => (/\ ~last'.native.called
          /\ last'.ret = "raise"
          /\ last'.handle = NoHandle
          /\ next_handle' = next_handle
          /\ handle_map' = handle_map) ]_vars

\* an allgather of a non-contiguous tensor has raised while a handle is pending
C6_Witness ==
  /\ last.call = "allgather_async"
  /\ last.raised = "ValueError"
  /\ ~last.tensor.contiguous
  /\ DOMAIN handle_map # {}

-----------------------------------------------------------------------------
(* Claims on one allreduce dispatch (SpecDispatch) *)

AdasumDispatch == last.call \in AllreduceCalls /\ last.op = Adasum

RaisedBeforeNative ==
  /\ last.raised = "NotImplementedError"
  /\ ~last.native.called
  /\ last.handle = NoHandle
  /\ DOMAIN handle_map = {}

\* the branch of _allreduce_async that tests size(): CPU tensor, or no GPU for torch
CpuPath == device_type(last.tensor) = "cpu" \/ ~gpu_available

\* a tensor that passes _check_function
Accepted(tensor) ==
  tensor.contiguous /\ _allreduce_function_factory(tensor) \in mpi_lib_exports

\* C3 as stated: every Adasum allreduce (here: of a tensor the engine accepts)
\* issued while size() is not a power of two raises NotImplementedError before the
\* native call and before any entry is added, whatever the device, NCCL,
\* homogeneity and local_size().
C3_AsStated ==
  (AdasumDispatch /\ Accepted(last.tensor) /\ ~num_rank_is_power_2(size))
  => RaisedBeforeNative

\* C3 amended: an Adasum allreduce raises NotImplementedError before the native
\* call and before any entry is added when it takes the CPU path and size() is
\* not a power of two, and when it takes the GPU path with NCCL and the cluster
\* is heterogeneous or size() / local_size() is not a power of two.
C3_AdasumTopologyError ==
  /\ (AdasumDispatch /\ CpuPath /\ ~num_rank_is_power_2(size))
       => RaisedBeforeNative
  /\ (AdasumDispatch /\ ~CpuPath /\ nccl_built
        /\ (~is_homogeneous \/ ~num_rank_is_power_2(size \div local_size)))
       => RaisedBeforeNative

\* a contiguous float32 CPU tensor, three ranks, Adasum: raised
C3_Witness ==
  /\ AdasumDispatch
  /\ last.tensor = [type |-> "torch.FloatTensor", contiguous |-> TRUE]
  /\ size = 3
  /\ RaisedBeforeNative

\* C4 as stated: an Adasum allreduce of a GPU tensor (here: one the engine
\* accepts, torch having a GPU) on a heterogeneous cluster or a cluster with a
\* non-power-of-two count does not raise: it warns, falls back to CPU execution
\* and reaches the native call.
C4_AsStated ==
  (/\ AdasumDispatch
   /\ device_type(last.tensor) = "cuda" /\ Accepted(last.tensor)
   /\ gpu_available
   /\ (~is_homogeneous \/ ~num_rank_is_power_2(size)))
  => (/\ last.raised \notin {"NotImplementedError", "ValueError"}
      /\ last.warned
      /\ last.native.called)

\* C4 amended: an Adasum allreduce of a contiguous GPU tensor, torch having a
\* GPU, warns and falls back to CPU execution (divisor 1) and reaches the native
\* call exactly when Horovod is built without NCCL, whatever the cluster; with
\* NCCL a heterogeneous cluster or a non-power-of-two number of nodes raises
\* NotImplementedError without a warning.
C4_GpuAdasumFallback ==
  (/\ AdasumDispatch
   /\ device_type(last.tensor) = "cuda" /\ last.tensor.contiguous
   /\ gpu_available)
  => /\ ~nccl_built =>
          /\ last.raised \notin {"NotImplementedError", "ValueError"}
          /\ last.warned
          /\ last.native.called
          /\ last.native.divisor = 1
          /\ last.native.op = Adasum
     /\ nccl_built => ~last.warned
     /\ (nccl_built /\ (~is_homogeneous
                          \/ ~num_rank_is_power_2(size \div local_size)))
          => (last.raised = "NotImplementedError" /\ ~last.native.called)

\* the fallback taken on a heterogeneous cluster of three ranks
C4_Witness ==
  /\ AdasumDispatch
  /\ device_type(last.tensor) = "cuda"
  /\ gpu_available /\ ~nccl_built /\ ~is_homogeneous /\ size = 3
  /\ last.warned
  /\ last.ret = "handle"

\* C5: an allreduce that reaches the engine passes it (Sum, size()) for Average
\* and (Sum, 1) for Sum, with the tensor and the output it was given; the engine
\* is never called with Average.
C5_AverageIsSumWithDivisor ==
  (last.call \in AllreduceCalls /\ last.native.called)
  => /\ last.native.op # Average
     /\ last.op = Average => (last.native.op = Sum /\ last.native.divisor = size)
     /\ last.op = Sum => (last.native.op = Sum /\ last.native.divisor = 1)
     /\ last.native.tensor = last.tensor
     /\ last.native.output = last.out
     /\ last.native.fn = _allreduce_function_factory(last.tensor)

\* an Average allreduce over three ranks has reached the engine
C5_Witness ==
  /\ last.call \in AllreduceCalls
  /\ last.op = Average
  /\ last.ret = "handle"
  /\ size = 3
  /\ last.native.divisor = 3

-----------------------------------------------------------------------------
(* Claims on the autograd Functions (SpecGrad) *)

\* the op the forward pass reduced with
ForwardOp ==
  IF ctx.op # None THEN ctx.op
  ELSE IF ctx.average = "False" THEN Sum ELSE Average

\* the elementwise sum over the ranks of the incoming gradients
SumOfGrads == [p \in DOMAIN world.grads[0] |-> rank_sum(world.grads, p, size - 1)]

AllreduceBackwardDone == world.fn = "allreduce" /\ grad.stage = "backward"
AllgatherBackwardDone == world.fn = "allgather" /\ grad.stage = "backward"
BroadcastBackwardDone == world.fn = "broadcast" /\ grad.stage = "backward"

\* C7 as stated: whatever the forward op (here: Average or Sum, whose results the
\* model interprets), HorovodAllreduce.backward allreduces the incoming gradient
\* with op Sum and divisor 1 and returns that sum.
C7_AsStated ==
  (AllreduceBackwardDone /\ ForwardOp # Adasum)
  => /\ grad.native.op = Sum
     /\ grad.native.divisor = 1
     /\ grad.value = SumOfGrads

\* C7 amended: HorovodAllreduce.backward allreduces the incoming gradient with the
\* op of the forward pass: Sum with divisor size() (the sum divided by size()) for
\* Average, Sum with divisor 1 (the sum) for Sum, Adasum for Adasum.
C7_BackwardUsesForwardOp ==
  AllreduceBackwardDone
  => /\ grad.native.called
     /\ ForwardOp = Average =>
          /\ grad.native.op = Sum /\ grad.native.divisor = size
          /\ grad.value = [p \in DOMAIN SumOfGrads |-> fdiv(SumOfGrads[p], size)]
     /\ ForwardOp = Sum =>
          /\ grad.native.op = Sum /\ grad.native.divisor = 1
          /\ grad.value = SumOfGrads
     /\ ForwardOp = Adasum => grad.native.op = Adasum

\* the backward of an Average allreduce over three ranks, the gradients summing to 2
C7_Witness ==
  /\ AllreduceBackwardDone
  /\ ForwardOp = Average
  /\ size = 3
  /\ grad.value = << [k |-> "fin", v |-> 2, div |-> 3] >>

\* the dimension-0 sizes of the ranks' forward inputs
Dim0(q) == Len(world.inputs[q])

RECURSIVE DimsBefore(_)
DimsBefore(r) == IF r = 0 THEN 0 ELSE DimsBefore(r - 1) + Dim0(r - 1)

\* the gathered sizes, as HorovodAllgather.backward sees them
GatheredDims == [i \in 1 .. size |-> Dim0(i - 1)]

\* the positions of the gathered gradient that rank q's backward returns
SliceOf(q) ==
  { p \in 1 .. DimsBefore(size) :
      /\ allgather_offset(q, GatheredDims, Dim0(q)) < p
      /\ p <= allgather_offset(q, GatheredDims, Dim0(q)) + Dim0(q) }

\* C8: the slice HorovodAllgather.backward returns on rank r starts at the sum of
\* the dimension-0 sizes of ranks 0..r-1 and is as long as rank r's own size, so
\* that the slices of the ranks are disjoint and cover the gathered gradient.
C8_AllgatherBackwardSlice ==
  AllgatherBackwardDone
  => /\ grad.offset = DimsBefore(rank)
     /\ grad.length = Dim0(rank)
     /\ grad.value = [i \in 1 .. Dim0(rank) |-> SumOfGrads[DimsBefore(rank) + i]]
     /\ \A p \in 1 .. DimsBefore(size) :
          Cardinality({ q \in Ranks : p \in SliceOf(q) }) = 1

\* the backward on the last of three ranks, the ranks before it differing in size
C8_Witness ==
  /\ AllgatherBackwardDone
  /\ size = 3 /\ rank = 2
  /\ Dim0(0) = 2 /\ Dim0(1) = 1 /\ Dim0(2) = 2
  /\ grad.offset = 3

\* C9: HorovodBroadcast.backward returns all zeros on every rank other than
\* root_rank and, on root_rank, the unmodified sum of the ranks' incoming gradients.
C9_AsStated ==
  BroadcastBackwardDone
  => /\ rank # ctx.root_rank => \A p \in DOMAIN grad.value : grad.value[p] = Fin(0)
     /\ rank = ctx.root_rank => grad.value = SumOfGrads

-----------------------------------------------------------------------------
(* Claims on concurrent use (SpecMT) *)

\* C10: under any interleaving of dispatching and synchronizing threads, the engine
\* not failing, no call raises (but a dispatch rejecting its own tensor),
\* horovod_torch_wait_and_clear is invoked at most once per handle, at most one
\* synchronize per handle returns the output, and an entry nobody has synchronized
\* stays in the table.
C10_AsStated ==
  ~native_failed
  => /\ \A t \in Threads : local[t].call = "synchronize" => local[t].raised = None
     /\ \A h \in Handles : waits[h].waited <= 1 /\ waits[h].returned <= 1
     /\ \A h \in issued :
          (/\ waits[h].waited = 0
           /\ \A t \in Threads : ~(pc[t] = "dispatched" /\ local[t].handle = h))
          => h \in DOMAIN handle_map

-----------------------------------------------------------------------------
(* Claims on a failing native wait (Spec) *)

\* C11: once a synchronize call on a handle has ended, normally or with an
\* exception (the native wait surfacing a runtime failure), the handle is no longer
\* in _handle_map, and a synchronize on the same handle that follows it does not
\* invoke horovod_torch_wait_and_clear again.
C11_AsStated ==
  [][ /\ last'.call = "synchronize" => last'.handle \notin DOMAIN handle_map'
      /\ (/\ last.call = "synchronize"
          /\ last'.call = "synchronize"
          /\ last'.handle = last.handle)
         => ~last'.native.called ]_vars

=============================================================================
